---- MODULE Spec2Model ----
(***************************************************************************)
(* woodlouse.js: sprites ("lice") crawling over the visible pages of a     *)
(* page-flip widget.  The model follows src/woodlouse.js.                  *)
(*                                                                         *)
(* Numbers.  The script computes in IEEE doubles; the model computes in    *)
(* fixed point.  Lengths and positions are in 1/Scale px, velocities and   *)
(* accelerations in 1/Scale px/s (px/s^2), times in ms, angles in whole    *)
(* degrees, and a value of Math.random() is r/1000 with r in 0..999.       *)
(* Divisions round to the nearest unit.                                    *)
(***************************************************************************)
EXTENDS Integers, Sequences, FiniteSets, TLC

\* ---------------------------------------------------------------- CFG
burstSize == 2
activeMaxPerSurface == 2
size == 46
frameMs == 90
speedMin == 240
speedMax == 340
baseSpeedLo == 260
baseSpeedHi == 320
accelMax == 900
inertiaPct == 86
wanderStrength == 240
wanderTurnRateMilli == 2600
wanderJitterPct == 90
edgePad == 6
dtMaxMs == 50
imgs == <<"craw-2.png", "craw-3.png">>

\* ---------------------------------------------------------------- bounds
Scale == 10
MaxLice == 3
MaxTicks == 2
MaxFrameTicks == 3
MaxStillLice == 4
MaxStillLayoutChanges == 3
MaxLayoutChanges == 2

\* ---------------------------------------------------------------- arithmetic
Min(a, b) == IF a < b THEN a ELSE b
Max(a, b) == IF a > b THEN a ELSE b
Abs(a) == IF a < 0 THEN -a ELSE a

\* a / b for b > 0, rounded to the nearest integer (half away from zero)
Rdiv(a, b) == IF a >= 0 THEN (2 * a + b) \div (2 * b)
                        ELSE -((2 * (-a) + b) \div (2 * b))

RECURSIVE SqrtIter(_, _, _)
SqrtIter(n, lo, hi) ==
    IF lo >= hi THEN lo
    ELSE LET mid == (lo + hi + 1) \div 2
         IN  IF mid * mid <= n THEN SqrtIter(n, mid, hi)
                               ELSE SqrtIter(n, lo, mid - 1)

\* floor of the square root, 0 <= n < 2^31
Isqrt(n) == SqrtIter(n, 0, 46340)

\* Math.hypot, rounded to the nearest unit
hypot(x, y) ==
    LET n == x * x + y * y
        r == Isqrt(n)
    IN  IF n - r * r > r THEN r + 1 ELSE r

\* 1000 * sin(d degrees), d in 0..90
SinTable ==
    << 0, 17, 35, 52, 70, 87, 105, 122, 139, 156, 174, 191, 208, 225, 242,
       259, 276, 292, 309, 326, 342, 358, 375, 391, 407, 423, 438, 454, 469,
       485, 500, 515, 530, 545, 559, 574, 588, 602, 616, 629, 643, 656, 669,
       682, 695, 707, 719, 731, 743, 755, 766, 777, 788, 799, 809, 819, 829,
       839, 848, 857, 866, 875, 883, 891, 899, 906, 914, 921, 927, 934, 940,
       946, 951, 956, 961, 966, 970, 974, 978, 982, 985, 988, 990, 993, 995,
       996, 998, 999, 999, 1000, 1000 >>

\* Math.sin and Math.cos of an angle in degrees, times 1000
sin(d) ==
    LET a == d % 360
    IN  IF a <= 90 THEN SinTable[a + 1]
        ELSE IF a <= 180 THEN SinTable[180 - a + 1]
        ELSE IF a <= 270 THEN -SinTable[a - 180 + 1]
        ELSE -SinTable[360 - a + 1]
cos(d) == sin(d + 90)

RECURSIVE AtanIter(_, _, _, _)
\* the largest k in lo..hi with tan(k degrees) <= b / a, for a, b >= 0
AtanIter(a, b, lo, hi) ==
    IF lo >= hi THEN lo
    ELSE LET mid == (lo + hi + 1) \div 2
         IN  IF b * cos(mid) >= a * sin(mid) THEN AtanIter(a, b, mid, hi)
                                             ELSE AtanIter(a, b, lo, mid - 1)

\* Math.atan2(dy, dx) in degrees, in -180..180
atan2(dy, dx) ==
    LET a == Abs(dx)
        b == Abs(dy)
        f == AtanIter(a, b, 0, 90)
        q == IF a = 0 /\ b = 0 THEN 0
             ELSE IF f < 90 /\ Abs(b * cos(f + 1) - a * sin(f + 1))
                                 < Abs(b * cos(f) - a * sin(f))
                  THEN f + 1 ELSE f
        h == IF dx >= 0 THEN q ELSE 180 - q
    IN  IF dy >= 0 THEN h ELSE -h

\* rnd(a, b) = a + Math.random() * (b - a), with Math.random() = r / 1000
rnd(a, b, r) == a + Rdiv(r * (b - a), 1000)

\* clamp(v, a, b) = Math.max(a, Math.min(b, v))
clamp(v, a, b) == Max(a, Min(b, v))

\* ---------------------------------------------------------------- DOM
\* The .page elements of the widget, in document order.
Pages == {1, 2, 3}

\* getBoundingClientRect of a page (w, h, top, bottom, in px) and the client
\* box of an overlay layer attached to it (lw, lh, in px).
Box(w, h, top, bottom, lw, lh) ==
    [w |-> w, h |-> h, top |-> top, bottom |-> bottom, lw |-> lw, lh |-> lh]
Hidden == Box(0, 0, 0, 0, 0, 0)

\* The layouts the document goes through, in this order and then again from
\* the first: window.innerHeight, the boxes, and the pages whose children the
\* widget rebuilt on the way to this layout, dropping their overlay layer.
Layouts ==
    << \* a two-page spread, page 3 not displayed; the layer of page 2 has no
       \* height
       [innerHeight |-> 700, rebuilt |-> {},
        box |-> << Box(400, 600, 50, 650, 400, 600),
                   Box(400, 600, 50, 650, 400, 0), Hidden >>],
       \* the widget scrolled out of the viewport
       [innerHeight |-> 700, rebuilt |-> {},
        box |-> << Box(400, 600, 800, 1400, 400, 600),
                   Box(400, 600, -700, -100, 400, 0), Hidden >>],
       \* a tiny window after a page turn: page 1 narrow and rebuilt, the
       \* other pages not displayed
       [innerHeight |-> 40, rebuilt |-> {1},
        box |-> << Box(12, 20, 10, 30, 12, 20), Hidden, Hidden >>] >>

\* Values of Math.random(), in thousandths.
Rands == {0, 500, 999}

\* What the frames draw, in this order and then again from the first: the
\* milliseconds since the frame before (ts - lastT) and the value of
\* Math.random() in wanderForce.
Frames == << [elapsed |-> 16, r |-> 999], [elapsed |-> 1000, r |-> 0],
             [elapsed |-> 50, r |-> 999], [elapsed |-> 20, r |-> 0] >>

VARIABLES
    flipPresent,    \* the document holds a .flipbook element
    layout,         \* index of the current layout in Layouts
    layoutChanges,  \* number of layout changes so far
    surfaces,       \* the Map element -> [layer, lice]
    layersMade,     \* number of layer elements created so far
    pageLayers,     \* DOM: page -> the layer elements that are its children
    layerSprites,   \* DOM: layer -> the sprite elements that are its children
    louse,          \* heap: louse id -> the object L
    created,        \* number of lice created so far
    removed,        \* ids whose fade-removal deleted them from their set
    scheduled,      \* louse id -> number of fade timeouts ever scheduled
    fadeTimers,     \* louse id -> number of fade timeouts pending
    markedAt,       \* louse id -> the frame that marked it not alive, 0 if none
    tickLayout,     \* the layout during the last frame, 0 if none
    probe,          \* a direct call of a function: its arguments and result
    running, lastT, frameClock,
    loops,          \* pending requestAnimationFrame(loop) callbacks
    ticks,          \* number of frames run so far
    listeners,      \* number of times bindFlipbookEvents bound its listeners
    burstTimeouts,  \* pending setTimeout(spawnBurst, 800)
    burstIntervals, \* setInterval(spawnBurst, burstEveryMs) timers running
    reducedMotion,  \* matchMedia("(prefers-reduced-motion: reduce)").matches
    startPc,        \* start() call -> "idle", "absent", "await", "done"
    imgState,       \* start() call -> image -> "none", "pending", "settled"
    lastBurst       \* the last spawnBurst: what the resolver returned, the
                    \* number of lice added, whether every visible surface
                    \* was at its cap when it started

vars == << flipPresent, layout, layoutChanges, surfaces,
           layersMade, pageLayers, layerSprites, louse, created, removed,
           scheduled, fadeTimers, markedAt, tickLayout, probe, running, lastT, frameClock, loops, ticks,
           listeners, burstTimeouts, burstIntervals, reducedMotion, startPc,
           imgState, lastBurst >>

\* ---------------------------------------------------------------- resolver
RECURSIVE SelectSeq2(_, _)
\* Array.prototype.filter on a sequence of pages, by the test of line 44;
\* lay is a layout: window.innerHeight and the box of every page
SelectSeq2(s, lay) ==
    IF s = << >> THEN << >>
    ELSE LET r == lay.box[Head(s)]
             rest == SelectSeq2(Tail(s), lay)
         IN  IF r.w > 0 /\ r.h > 0 /\ r.bottom > 0
                /\ r.top < lay.innerHeight
             THEN << Head(s) >> \o rest ELSE rest

Area(el, lay) == lay.box[el].w * lay.box[el].h

RECURSIVE InsertByArea(_, _, _)
\* insert el after every element whose area is not smaller (a stable sort)
InsertByArea(el, s, lay) ==
    IF s = << >> THEN << el >>
    ELSE IF Area(Head(s), lay) >= Area(el, lay)
         THEN << Head(s) >> \o InsertByArea(el, Tail(s), lay)
         ELSE << el >> \o s

\* mutant of SortByArea: the candidates are left in document order
documentOrder(s, lay) == s

RECURSIVE SortByArea(_, _)
\* Array.prototype.sort with the comparator of lines 47-50 (descending area)
SortByArea(s, lay) ==
    IF s = << >> THEN << >>
    ELSE InsertByArea(s[Len(s)], SortByArea(SubSeq(s, 1, Len(s) - 1), lay), lay)

\* qa(".flipbook .page"): the pages in document order, none without a widget
PageNodes(flip) == IF flip THEN << 1, 2, 3 >> ELSE << >>

\* pages.slice(0, 2)
slice2(sorted) == SubSeq(sorted, 1, Min(2, Len(sorted)))

getVisiblePages(flip, lay) ==
    slice2(SortByArea(SelectSeq2(PageNodes(flip), lay), lay))

\* what getVisiblePages returns, tabulated by the document and the layout
visiblePages ==
    [flip \in BOOLEAN, lay \in DOMAIN Layouts |->
        getVisiblePages(flip, Layouts[lay])]

Range(s) == {s[i] : i \in DOMAIN s}

\* layer.parentElement: the page the layer is a child of, 0 if detached
parentElement(layer, pl) ==
    IF \E p \in Pages : layer \in pl[p]
    THEN CHOOSE p \in Pages : layer \in pl[p] ELSE 0

\* el.appendChild(layer): the layer becomes the last child of el only
appendChild(pl, el, layer) ==
    [p \in Pages |-> IF p = el THEN pl[p] \cup {layer} ELSE pl[p] \ {layer}]

\* lines 70-73: a new layer mounted on el and registered
mountNew(reg, el, layer) ==
    [surfaces |-> [p \in DOMAIN reg.surfaces \cup {el} |->
                     IF p = el THEN [layer |-> layer, lice |-> {}]
                               ELSE reg.surfaces[p]],
     layersMade |-> layer,
     pageLayers |-> appendChild(reg.pageLayers, el, layer),
     layerSprites |-> [l \in DOMAIN reg.layerSprites \cup {layer} |->
                         IF l = layer THEN {} ELSE reg.layerSprites[l]]]

\* mutant of ensureOne: the test surfaces.has(el) is left out
ensureOneUntested(reg, el) == mountNew(reg, el, reg.layersMade + 1)

\* the body of vis.forEach (lines 68-79) for one element
ensureOne(reg, el) ==
    IF el \notin DOMAIN reg.surfaces
    THEN mountNew(reg, el, reg.layersMade + 1)
    ELSE LET layer == reg.surfaces[el].layer
         IN  IF parentElement(layer, reg.pageLayers) # el
             THEN [reg EXCEPT !.pageLayers = appendChild(@, el, layer)]
             ELSE reg

RECURSIVE ensureEach(_, _)
ensureEach(reg, vis) ==
    IF vis = << >> THEN reg
    ELSE ensureEach(ensureOne(reg, Head(vis)), Tail(vis))

\* ensureLayersOnVisiblePages on the registry and the DOM; the loop of lines
\* 58-65 has an empty body
ensureLayersOnVisiblePages(reg, vis) == ensureEach(reg, vis)

\* the registry and the DOM of the current state
Reg == [surfaces |-> surfaces, layersMade |-> layersMade,
        pageLayers |-> pageLayers, layerSprites |-> layerSprites]

\* layer.clientWidth and layer.clientHeight; a detached layer has no box
clientWidth(layer, pl, lay) ==
    LET p == parentElement(layer, pl)
    IN  IF p = 0 THEN 0 ELSE Layouts[lay].box[p].lw * Scale
clientHeight(layer, pl, lay) ==
    LET p == parentElement(layer, pl)
    IN  IF p = 0 THEN 0 ELSE Layouts[lay].box[p].lh * Scale

\* ---------------------------------------------------------------- entity
\* The random numbers one spawn consumes: the wander heading of makeLouse,
\* then in configureRoute the side (Math.floor(Math.random() * 4)), the entry
\* and exit offsets, the speed and the wander bias.
Draw(side, re, rx, rs, rb, rw) ==
    [side |-> side, re |-> re, rx |-> rx, rs |-> rs, rb |-> rb, rw |-> rw]

\* What the spawns draw, in this order and then again from the first.
Draws == << Draw(2, 999, 0, 999, 999, 999), Draw(0, 0, 999, 0, 0, 0),
            Draw(3, 0, 999, 999, 0, 999), Draw(1, 999, 0, 0, 999, 0) >>

\* the draws of the spawns that follow the first n
DrawsAfter(n) == [k \in 1..Len(Draws) |-> Draws[((n + k - 1) % Len(Draws)) + 1]]

\* makeLouse: the sprite element is identified with the louse id, and
\* surfaceInfo with the page that is its key in the Map
makeLouse(el, d) ==
    [surf |-> el, x |-> 0, y |-> 0, vx |-> 0, vy |-> 0, frame |-> 0,
     alive |-> TRUE, wanderAngle |-> rnd(0, 360, d.rw),
     exit |-> [x |-> 0, y |-> 0]]

\* mutant of edgeOffset: the offset drawn and clamped without the padding
edgeOffsetUnpadded(D, r) ==
    clamp(rnd(0, D - size * Scale, r), 0, D - size * Scale)

\* the offset along an edge of length D (lines 105, 107, 110, ...)
edgeOffset(D, r) ==
    LET S == size * Scale
        pad == edgePad * Scale
    IN  clamp(rnd(pad, D - S - pad, r), pad, D - S - pad)

\* lines 104-124: entry point and exit target
routeEnds(W, H, d) ==
    LET S == size * Scale
    IN  IF d.side = 0
        THEN [x |-> edgeOffset(W, d.re), y |-> H - S,
              ex |-> edgeOffset(W, d.rx), ey |-> -S - 4 * Scale]
        ELSE IF d.side = 1
        THEN [x |-> edgeOffset(W, d.re), y |-> 0,
              ex |-> edgeOffset(W, d.rx), ey |-> H + 4 * Scale]
        ELSE IF d.side = 2
        THEN [x |-> 0, y |-> edgeOffset(H, d.re),
              ex |-> W + 4 * Scale, ey |-> edgeOffset(H, d.rx)]
        ELSE [x |-> W - S, y |-> edgeOffset(H, d.re),
              ex |-> -S - 4 * Scale, ey |-> edgeOffset(H, d.rx)]

\* lines 126-132: the initial velocity, at the angle ang toward the exit;
\* rnd(-0.6, 0.6) radians is rnd(-34, 34) degrees
towardExit(L, ang, spd, d) ==
    [L EXCEPT !.vx = Rdiv(cos(ang) * spd, 1000),
              !.vy = Rdiv(sin(ang) * spd, 1000),
              !.wanderAngle = ang + rnd(-34, 34, d.rb)]

\* lines 104-132 for the entry and the exit e
routed(L, e, d) ==
    towardExit([L EXCEPT !.x = e.x, !.y = e.y,
                         !.exit = [x |-> e.ex, y |-> e.ey]],
               atan2(e.ey - e.y, e.ex - e.x),
               rnd(baseSpeedLo * Scale, baseSpeedHi * Scale, d.rs), d)

configureRoute(L, W, H, d) == routed(L, routeEnds(W, H, d), d)

\* mutants of atCap: the cap compared off by one, and not compared at all
atCapLate(n) == n > activeMaxPerSurface
atCapNever(n) == FALSE

\* line 140
atCap(n) == n >= activeMaxPerSurface

\* mutant of liceSize: the lice of the set that are alive
liceSizeAlive(st, el) ==
    Cardinality({i \in st.surfaces[el].lice : st.louse[i].alive})

\* info.lice.size (line 140)
liceSize(st, el) == Cardinality(st.surfaces[el].lice)

\* spawnOneOn on the state st = [surfaces, layersMade, pageLayers,
\* layerSprites, louse, created]; L is the id of the new louse, 0 for null
spawnOneOn(st, el, d, lay) ==
    IF el \notin DOMAIN st.surfaces THEN [st |-> st, L |-> 0]
    ELSE IF atCap(liceSize(st, el)) THEN [st |-> st, L |-> 0]
    ELSE LET info == st.surfaces[el]
             W == clientWidth(info.layer, st.pageLayers, lay)
             H == clientHeight(info.layer, st.pageLayers, lay)
             id == st.created + 1
             L == configureRoute(makeLouse(el, d), W, H, d)
         IN  [st |-> [st EXCEPT
                        !.surfaces[el].lice = @ \cup {id},
                        !.layerSprites[info.layer] = @ \cup {id},
                        !.louse = [i \in DOMAIN st.louse \cup {id} |->
                                     IF i = id THEN L ELSE st.louse[i]],
                        !.created = id],
              L |-> id]

RECURSIVE burstPass(_, _, _, _, _)
\* lines 161-162 and 169-170: remaining counts down if spawnOneOn returned a
\* louse (r is what it returned), and the loop goes on
counted(r, els, remaining, ds, lay) ==
    IF r.L # 0
    THEN burstPass(r.st, Tail(els), remaining - 1, Tail(ds), lay)
    ELSE burstPass(r.st, Tail(els), remaining, ds, lay)

\* one for-of loop of spawnBurst (lines 159-163 and 167-171); ds holds the
\* draws of the spawns still to come
burstPass(st, els, remaining, ds, lay) ==
    IF els = << >> \/ remaining <= 0
    THEN [st |-> st, remaining |-> remaining, ds |-> ds]
    ELSE counted(spawnOneOn(st, Head(els), Head(ds), lay), els, remaining,
                 ds, lay)

\* mutant of secondPass: the burst ends after its first loop
noSecondPass(p1, shuffled, lay) == p1

\* lines 166-171: the second pass over the same order, after the first pass
\* ended as p1
secondPass(p1, shuffled, lay) ==
    IF p1.remaining > 0
    THEN burstPass(p1.st, shuffled, p1.remaining, p1.ds, lay)
    ELSE p1

\* spawnBurst after ensureLayersOnVisiblePages returned a non-empty vis
burstPasses(st, shuffled, ds, lay) ==
    secondPass(burstPass(st, shuffled, burstSize, ds, lay), shuffled, lay)

\* the orders vis.slice().sort(() => Math.random() - 0.5) can produce
Shuffles(vis) ==
    {s \in [1..Len(vis) -> Range(vis)] : Range(s) = Range(vis)}

\* ---------------------------------------------------------------- physics
\* line 178 for the vector (x, y) of magnitude m
limited(x, y, max, m) ==
    IF m > max /\ m > 0
    THEN [x |-> Rdiv(x * max, m), y |-> Rdiv(y * max, m)]
    ELSE [x |-> x, y |-> y]

limit(x, y, max) == limited(x, y, max, hypot(x, y))

\* Math.hypot(...) || 1 (lines 185 and 240)
speedOr1(h) == IF h = 0 THEN 1 ELSE h

\* lines 187-193 for the offset (dx, dy) of length len to the target
steered(L, dx, dy, len, desiredSpeed, accelBudget) ==
    limit(Rdiv(dx * desiredSpeed, len) - L.vx,
          Rdiv(dy * desiredSpeed, len) - L.vy, accelBudget)

\* the steering acceleration, as the record {x, y} that limit returns
steerToward(L, tx, ty, accelBudget) ==
    steered(L, tx - L.x, ty - L.y, speedOr1(hypot(tx - L.x, ty - L.y)),
            clamp(hypot(L.vx, L.vy), speedMin * Scale, speedMax * Scale),
            accelBudget)

\* the heading after wanderForce drifted it (lines 197-199), dt in ms;
\* 1 rad = 57.296 degrees
wanderTurn(L, dt, r) ==
    LET maxDeltaMilliRad == Rdiv(wanderTurnRateMilli * dt, 1000)
        maxDelta == Rdiv(maxDeltaMilliRad * 57296, 1000)
        delta == Rdiv(rnd(-maxDelta, maxDelta, r) * (50 + wanderJitterPct \div 2),
                      100)
    IN  L.wanderAngle + Rdiv(delta, 1000)

\* the acceleration wanderForce returns (lines 200-203)
wanderForce(angle) ==
    [ax |-> Rdiv(cos(angle) * wanderStrength * Scale, 1000),
     ay |-> Rdiv(sin(angle) * wanderStrength * Scale, 1000)]

\* line 242: the velocity v of speed sp rescaled to the speed spClamped
rescale(v, sp, spClamped) ==
    IF sp # spClamped
    THEN [vx |-> Rdiv(v.vx * spClamped, sp), vy |-> Rdiv(v.vy * spClamped, sp)]
    ELSE v

\* mutant of clampSpeed: the velocity is left as integrated
unclampedSpeed(v, sp) == v

\* lines 241-242: the speed kept in [speedMin, speedMax]
clampSpeed(v, sp) ==
    rescale(v, sp, clamp(sp, speedMin * Scale, speedMax * Scale))

\* mutant of despawnCond: the edges of the extended box count as outside
despawnCondLoose(x, y, W, H) ==
    x <= -(size * Scale) \/ x >= W \/ y <= -(size * Scale) \/ y >= H

\* mutant of despawnCond: the box is extended by the sprite size on every side
despawnCondSymmetric(x, y, W, H) ==
    \/ x < -(size * Scale) \/ x > W + size * Scale
    \/ y < -(size * Scale) \/ y > H + size * Scale

\* line 209
despawnCond(x, y, W, H) ==
    x < -(size * Scale) \/ x > W \/ y < -(size * Scale) \/ y > H

\* mutant of skipped: tick does not look at the alive flag
neverSkipped(L) == FALSE

\* line 225
skipped(L) == ~L.alive

\* lines 232-233: the two forces combined and capped
combine(w, s) == limit(w.ax + s.x, w.ay + s.y, accelMax * Scale)

\* lines 228-233: the acceleration of the frame, dt in ms
acceleration(L, dt, r) ==
    combine(wanderForce(wanderTurn(L, dt, r)),
            steerToward(L, L.exit.x, L.exit.y, accelMax * Scale))

\* lines 236-237: the velocity integrated with inertia
integrateVelocity(L, a, dt) ==
    [vx |-> Rdiv(L.vx * inertiaPct * 10 + a.x * dt, 1000),
     vy |-> Rdiv(L.vy * inertiaPct * 10 + a.y * dt, 1000)]

\* the velocity of lines 236-237, before the speed clamp
integrated(L, dt, r) == integrateVelocity(L, acceleration(L, dt, r), dt)

\* lines 240-242
clamped(v) == clampSpeed(v, speedOr1(hypot(v.vx, v.vy)))

\* lines 199 and 242-246: the heading, the velocity and the position stored
integratePosition(L, angle, v, dt) ==
    [L EXCEPT !.wanderAngle = angle, !.vx = v.vx, !.vy = v.vy,
              !.x = @ + Rdiv(v.vx * dt, 1000),
              !.y = @ + Rdiv(v.vy * dt, 1000)]

\* lines 228-246 for one louse: forces, velocity, speed clamp, position
advance(L, dt, r) ==
    integratePosition(L, wanderTurn(L, dt, r), clamped(integrated(L, dt, r)), dt)

\* maybeDespawn for the louse M in the client box W x H of its layer: the
\* louse after it, and whether its removal was scheduled
maybeDespawn(M, W, H) ==
    IF despawnCond(M.x, M.y, W, H)
    THEN [L |-> [M EXCEPT !.alive = FALSE], fade |-> TRUE]
    ELSE [L |-> M, fade |-> FALSE]

\* the body of set.forEach in tick for one louse
tickOne(L, dt, r, W, H) ==
    IF skipped(L) THEN [L |-> L, fade |-> FALSE]
    ELSE maybeDespawn(advance(L, dt, r), W, H)

\* stepFrame
stepFrame(L) == [L EXCEPT !.frame = (@ + 1) % Len(imgs)]

\* ---------------------------------------------------------------- state
Ids == 1..MaxLice
\* The calls of start(): the DOMContentLoaded listener's (line 299), and one
\* through the public window.woodlouse.start (line 297).
Calls == {1, 2}
Auto == {1}
Images == 1..Len(imgs)

Init ==
    /\ flipPresent \in BOOLEAN
    /\ reducedMotion \in BOOLEAN
    /\ layout = 1
    /\ layoutChanges = 0
    /\ surfaces = << >>
    /\ layersMade = 0
    /\ pageLayers = [p \in Pages |-> {}]
    /\ layerSprites = << >>
    /\ louse = << >>
    /\ created = 0
    /\ removed = {}
    /\ scheduled = [i \in Ids |-> 0]
    /\ fadeTimers = [i \in Ids |-> 0]
    /\ markedAt = [i \in Ids |-> 0]
    /\ tickLayout = 0
    /\ probe = << >>
    /\ running = FALSE
    /\ lastT = 0
    /\ frameClock = 0
    /\ loops = 0
    /\ ticks = 0
    /\ listeners = 0
    /\ burstTimeouts = 0
    /\ burstIntervals = 0
    /\ startPc = [c \in Calls |-> "idle"]
    /\ imgState = [c \in Calls |-> [i \in Images |-> "none"]]
    /\ lastBurst = [calls |-> 0, vis |-> {}, added |-> 0, full |-> FALSE,
                    fading |-> FALSE]

envVars == << flipPresent, reducedMotion, layout, layoutChanges, probe >>
regVars == << surfaces, layersMade, pageLayers, layerSprites >>
liceVars == << louse, created, removed, scheduled, fadeTimers, markedAt >>
loopVars == << running, lastT, frameClock, loops, ticks, tickLayout >>
startVars == << listeners, burstTimeouts, burstIntervals, startPc, imgState >>


\* the lice that are in some surface's set
InSets(surf) == UNION {surf[p].lice : p \in DOMAIN surf}

\* ---------------------------------------------------------------- environment
\* the window is resized or scrolled, or the widget shows other pages
LayoutChangeWithin(maxChanges) ==
    /\ layoutChanges < maxChanges
    /\ layout' = (layout % Len(Layouts)) + 1
    /\ layoutChanges' = layoutChanges + 1
    /\ pageLayers' = [p \in Pages |->
                        IF p \in Layouts[layout'].rebuilt THEN {}
                        ELSE pageLayers[p]]
    /\ UNCHANGED << lastBurst, flipPresent, reducedMotion, probe, surfaces,
                    layersMade, layerSprites, liceVars, loopVars, startVars >>

LayoutChange == LayoutChangeWithin(MaxLayoutChanges)

\* ---------------------------------------------------------------- handlers
\* the "resize" and "turned" listeners (lines 274 and 276)
ensureHandler ==
    /\ listeners > 0
    /\ \E reg \in {ensureLayersOnVisiblePages(Reg,
                                               visiblePages[flipPresent, layout])} :
           /\ surfaces' = reg.surfaces
           /\ layersMade' = reg.layersMade
           /\ pageLayers' = reg.pageLayers
           /\ layerSprites' = reg.layerSprites
    /\ UNCHANGED << lastBurst, envVars, liceVars, loopVars, startVars >>

OnResize == ensureHandler
OnTurned == ensureHandler

\* the "turning" listener (line 275) has an empty body
OnTurning ==
    /\ listeners > 0
    /\ UNCHANGED << lastBurst, envVars, regVars, liceVars, loopVars, startVars >>

RECURSIVE SeqOfSet(_)
SeqOfSet(S) ==
    IF S = {} THEN << >>
    ELSE LET x == CHOOSE y \in S : TRUE IN << x >> \o SeqOfSet(S \ {x})

\* mutant of burstResult: the burst walks every registered surface
burstResultRegistered(st0, vis, shuffled, ds, lay) ==
    burstPasses(st0, SeqOfSet(DOMAIN st0.surfaces), ds, lay).st

\* mutant of burstResult: with no visible surface the burst falls back on
\* the registered surfaces
burstResultFallback(st0, vis, shuffled, ds, lay) ==
    IF Len(vis) = 0
    THEN burstPasses(st0, SeqOfSet(DOMAIN st0.surfaces), ds, lay).st
    ELSE burstPasses(st0, shuffled, ds, lay).st

\* the lice one spawnBurst adds from the state st0 reached after
\* ensureLayersOnVisiblePages returned vis
burstResult(st0, vis, shuffled, ds, lay) ==
    IF Len(vis) = 0 THEN st0 ELSE burstPasses(st0, shuffled, ds, lay).st

\* the state spawnBurst works on once ensureLayersOnVisiblePages returned
afterEnsure(reg) ==
    [surfaces |-> reg.surfaces, layersMade |-> reg.layersMade,
     pageLayers |-> reg.pageLayers, layerSprites |-> reg.layerSprites,
     louse |-> louse, created |-> created]

\* spawnBurst, called by the initial timeout, the interval or burst()
spawnBurstWithin(maxLice) ==
    \E vis \in {visiblePages[flipPresent, layout]} :
      \E shuffled \in Shuffles(vis) :
        \E st \in {burstResult(afterEnsure(ensureLayersOnVisiblePages(Reg, vis)),
                               vis, shuffled, DrawsAfter(created), layout)} :
          /\ st.created <= maxLice
          /\ surfaces' = st.surfaces
          /\ layersMade' = st.layersMade
          /\ pageLayers' = st.pageLayers
          /\ layerSprites' = st.layerSprites
          /\ louse' = st.louse
          /\ created' = st.created
          /\ lastBurst' =
               [calls |-> Min(lastBurst.calls + 1, 2),
                vis |-> Range(vis),
                added |-> st.created - created,
                full |-> \A el \in Range(vis) :
                   el \in DOMAIN surfaces
                   /\ Cardinality(surfaces[el].lice) >= activeMaxPerSurface,
                fading |-> \E el \in Range(vis) \cap DOMAIN surfaces :
                   /\ Cardinality(surfaces[el].lice) >= activeMaxPerSurface
                   /\ \E i \in surfaces[el].lice : ~louse[i].alive]

spawnBurst == spawnBurstWithin(MaxLice)

BurstTimeout ==
    /\ burstTimeouts > 0
    /\ spawnBurst
    /\ burstTimeouts' = burstTimeouts - 1
    /\ UNCHANGED << envVars, removed, scheduled, fadeTimers, markedAt, loopVars,
                    listeners, burstIntervals, startPc, imgState >>

BurstInterval ==
    /\ burstIntervals > 0
    /\ spawnBurst
    /\ UNCHANGED << envVars, removed, scheduled, fadeTimers, markedAt, loopVars,
                    startVars >>

\* window.woodlouse.burst()
Burst ==
    /\ spawnBurst
    /\ UNCHANGED << envVars, removed, scheduled, fadeTimers, markedAt, loopVars,
                    startVars >>

\* the timeout of line 212 fires for louse id
FadeTimeout(id) ==
    /\ fadeTimers[id] > 0
    /\ layerSprites' = [l \in DOMAIN layerSprites |-> layerSprites[l] \ {id}]
    /\ surfaces' = [surfaces EXCEPT ![louse[id].surf].lice = @ \ {id}]
    /\ removed' = removed \cup {id}
    /\ fadeTimers' = [fadeTimers EXCEPT ![id] = @ - 1]
    /\ louse' = IF fadeTimers[id] = 1
                THEN [i \in DOMAIN louse \ {id} |-> louse[i]] ELSE louse
    /\ UNCHANGED << lastBurst, envVars, layersMade, pageLayers, created,
                    scheduled, markedAt, loopVars, startVars >>

\* mutant of ticked: tick visits the surfaces the resolver returns
tickedVisible(surf, vis) == [p \in DOMAIN surf \cap Range(vis) |-> surf[p]]

\* the entries of the Map that tick visits (line 223): all of them, whatever
\* the resolver returns now
ticked(surf, vis) == surf

\* The first frame sets lastT = ts, so that no time has elapsed; nor has any
\* between two callbacks of the same frame, when several loops run.
FrameInputs(last, n, k) ==
    LET f == Frames[(k % Len(Frames)) + 1]
    IN  IF last = 0 THEN {[elapsed |-> 0, r |-> f.r]}
        ELSE {f} \cup (IF n > 1 THEN {[elapsed |-> 0, r |-> f.r]} ELSE {})

\* the client box of the layer of the surface that owns L
boxOf(L) ==
    [W |-> clientWidth(surfaces[L.surf].layer, pageLayers, layout),
     H |-> clientHeight(surfaces[L.surf].layer, pageLayers, layout)]

\* one call of loop(ts) by requestAnimationFrame; elapsed = ts - lastT in ms.
\* The lice do not interact: every louse of one frame is given the same value
\* of Math.random().
LoopWithin(maxTicks) ==
    /\ loops > 0
    /\ ticks < maxTicks
    /\ IF ~running
       THEN /\ loops' = loops - 1
            /\ UNCHANGED << lastBurst, envVars, regVars, liceVars, running,
                            lastT, frameClock, ticks, tickLayout, startVars >>
       ELSE \E f \in FrameInputs(lastT, loops, ticks) :
            \E dt \in {Min(dtMaxMs, f.elapsed)} :
            \E clock \in {frameClock + dt} :
            \E stepped \in {[i \in DOMAIN louse |->
                                IF clock >= frameMs /\ i \in InSets(surfaces)
                                THEN stepFrame(louse[i]) ELSE louse[i]]} :
            \E after \in {[i \in DOMAIN louse |->
                  IF i \in InSets(ticked(surfaces,
                                         visiblePages[flipPresent, layout]))
                  THEN tickOne(stepped[i], dt, f.r,
                               boxOf(louse[i]).W, boxOf(louse[i]).H)
                  ELSE [L |-> stepped[i], fade |-> FALSE]]} :
            \E faded \in {{i \in DOMAIN louse : after[i].fade}} :
                  /\ louse' = [i \in DOMAIN louse |-> after[i].L]
                  /\ scheduled' = [i \in Ids |->
                        IF i \in faded THEN scheduled[i] + 1 ELSE scheduled[i]]
                  /\ fadeTimers' = [i \in Ids |->
                        IF i \in faded THEN fadeTimers[i] + 1 ELSE fadeTimers[i]]
                  /\ markedAt' = [i \in Ids |->
                        IF i \in faded THEN ticks + 1 ELSE markedAt[i]]
                  /\ frameClock' = IF clock >= frameMs THEN 0 ELSE clock
                  /\ lastT' = 1
                  /\ ticks' = ticks + 1
                  /\ tickLayout' = layout
                  /\ UNCHANGED << lastBurst, envVars, regVars, created,
                                  removed, running, loops, startVars >>

\* ---------------------------------------------------------------- bootstrap
Loop == LoopWithin(MaxTicks)

\* mutant of StartCall: start() does not test $flip.length
StartCallUntested(c) ==
    /\ startPc[c] = "idle"
    /\ startPc' = [startPc EXCEPT ![c] = "await"]
    /\ imgState' = [imgState EXCEPT ![c] = [i \in Images |-> "pending"]]
    /\ UNCHANGED << lastBurst, envVars, regVars, liceVars, loopVars, listeners,
                    burstTimeouts, burstIntervals >>

\* start() up to its await: DOMContentLoaded or window.woodlouse.start()
StartCall(c) ==
    /\ startPc[c] = "idle"
    /\ \A b \in Calls : b < c => startPc[b] # "idle"
    /\ IF ~flipPresent
       THEN /\ startPc' = [startPc EXCEPT ![c] = "absent"]
            /\ UNCHANGED imgState
       ELSE /\ startPc' = [startPc EXCEPT ![c] = "await"]
            /\ imgState' = [imgState EXCEPT ![c] = [i \in Images |-> "pending"]]
    /\ UNCHANGED << lastBurst, envVars, regVars, liceVars, loopVars, listeners,
                    burstTimeouts, burstIntervals >>

\* im.onload and im.onerror of one image of one preloadImages call
ImageLoad(c, i) ==
    /\ imgState[c][i] = "pending"
    /\ imgState' = [imgState EXCEPT ![c][i] = "settled"]
    /\ UNCHANGED << lastBurst, envVars, regVars, liceVars, loopVars, listeners,
                    burstTimeouts, burstIntervals, startPc >>

\* mutant of ImageError: im.onerror rejects the promise instead of resolving it
ImageErrorRejects(c, i) ==
    /\ imgState[c][i] = "pending"
    /\ imgState' = [imgState EXCEPT ![c][i] = "rejected"]
    /\ UNCHANGED << lastBurst, envVars, regVars, liceVars, loopVars, listeners,
                    burstTimeouts, burstIntervals, startPc >>

ImageError(c, i) ==
    /\ imgState[c][i] = "pending"
    /\ imgState' = [imgState EXCEPT ![c][i] = "settled"]
    /\ UNCHANGED << lastBurst, envVars, regVars, liceVars, loopVars, listeners,
                    burstTimeouts, burstIntervals, startPc >>

\* mutant of StartResume: the loop is started whatever matchMedia reports
StartResumeAlwaysRuns(c) ==
    /\ startPc[c] = "await"
    /\ \A i \in Images : imgState[c][i] = "settled"
    /\ \E reg \in {ensureLayersOnVisiblePages(Reg,
                                               visiblePages[flipPresent, layout])} :
           /\ surfaces' = reg.surfaces
           /\ layersMade' = reg.layersMade
           /\ pageLayers' = reg.pageLayers
           /\ layerSprites' = reg.layerSprites
    /\ listeners' = listeners + 1
    /\ burstTimeouts' = burstTimeouts + 1
    /\ burstIntervals' = burstIntervals + 1
    /\ running' = TRUE
    /\ loops' = loops + 1
    /\ startPc' = [startPc EXCEPT ![c] = "done"]
    /\ UNCHANGED << lastBurst, envVars, liceVars, lastT, frameClock, ticks,
                    tickLayout, imgState >>

\* start() after its await (lines 284-293)
StartResume(c) ==
    /\ startPc[c] = "await"
    /\ \A i \in Images : imgState[c][i] = "settled"
    /\ \E reg \in {ensureLayersOnVisiblePages(Reg,
                                               visiblePages[flipPresent, layout])} :
           /\ surfaces' = reg.surfaces
           /\ layersMade' = reg.layersMade
           /\ pageLayers' = reg.pageLayers
           /\ layerSprites' = reg.layerSprites
    /\ listeners' = listeners + 1
    /\ burstTimeouts' = burstTimeouts + 1
    /\ burstIntervals' = burstIntervals + 1
    /\ running' = ~reducedMotion
    /\ loops' = IF ~reducedMotion THEN loops + 1 ELSE loops
    /\ startPc' = [startPc EXCEPT ![c] = "done"]
    /\ UNCHANGED << lastBurst, envVars, liceVars, lastT, frameClock, ticks,
                    tickLayout, imgState >>

Next ==
    \/ LayoutChange
    \/ OnResize
    \/ OnTurned
    \/ OnTurning
    \/ BurstTimeout
    \/ BurstInterval
    \/ Burst
    \/ \E id \in Ids : FadeTimeout(id)
    \/ Loop
    \/ \E c \in Auto : StartCall(c)
    \/ \E c \in Calls, i \in Images : ImageLoad(c, i)
    \/ \E c \in Calls, i \in Images : ImageError(c, i)
    \/ \E c \in Calls : StartResume(c)

Spec == Init /\ [][Next]_vars

\* The continuation of "await preloadImages(...)" is a microtask: the event
\* loop runs it once the promise of Promise.all is resolved.
SpecLive == Spec /\ \A c \in Calls : WF_vars(StartResume(c))

\* window.woodlouse.start(): a page script calls the public entry point after
\* the DOMContentLoaded listener has run, possibly while that call still awaits.
ManualStart == \E c \in Calls \ Auto : StartCall(c)

NextRestart == Next \/ ManualStart

SpecRestart == Init /\ [][NextRestart]_vars

\* Frames up to the first one whose accumulated clock reaches frameMs: the
\* first frame has dt = 0 and every later one at most dtMaxMs.
LongLoop == LoopWithin(MaxFrameTicks)

NextFrames == Next \/ LongLoop

SpecFrames == Init /\ [][NextFrames]_vars

\* The page of a visitor who prefers reduced motion: no frame ever runs, so
\* that lice only accumulate; page scripts call window.woodlouse.burst() while
\* the layout goes once round Layouts.
InitStill ==
    /\ Init
    /\ flipPresent
    /\ reducedMotion

StillLayoutChange == LayoutChangeWithin(MaxStillLayoutChanges)

StillBurst ==
    /\ spawnBurstWithin(MaxStillLice)
    /\ UNCHANGED << envVars, removed, scheduled, fadeTimers, markedAt, loopVars,
                    startVars >>

NextStill ==
    \/ StillLayoutChange
    \/ OnResize
    \/ OnTurned
    \/ OnTurning
    \/ BurstTimeout
    \/ BurstInterval
    \/ StillBurst
    \/ \E c \in Auto : StartCall(c)
    \/ \E c \in Calls, i \in Images : ImageLoad(c, i)
    \/ \E c \in Calls, i \in Images : ImageError(c, i)
    \/ \E c \in Calls : StartResume(c)

SpecStill == InitStill /\ [][NextStill]_vars

\* ------------------------------------------------- configureRoute alone
\* Widths and heights of a layer's client box, in pixels: none, narrower than
\* a sprite, just below, at and above size + 2 * edgePad, and a full page.
RouteDims == {0, 12, 20, 57, 58, 59, 600, 800}

InitRoute ==
    /\ Init
    /\ ~flipPresent
    /\ ~reducedMotion

\* configureRoute(L, W, H) called on a new louse, once
RouteCall ==
    /\ probe = << >>
    /\ \E W \in RouteDims, H \in RouteDims, side \in 0..3,
          re \in Rands, rx \in Rands, rs \in Rands :
         \E d \in {Draw(side, re, rx, rs, 0, 0)} :
           probe' = [W |-> W * Scale, H |-> H * Scale, d |-> d,
                     L |-> configureRoute(makeLouse(1, d), W * Scale,
                                          H * Scale, d)]
    /\ UNCHANGED << lastBurst, flipPresent, reducedMotion, layout,
                    layoutChanges, regVars, liceVars, loopVars, startVars >>

SpecRoute == InitRoute /\ [][RouteCall]_vars

\* ------------------------------------------------ getVisiblePages alone
\* Widths, heights and tops of a page's bounding box, in pixels, in a window
\* of height ResolveInnerHeight: no extent; above the viewport and ending at
\* its top edge; crossing the top edge; ending inside; starting on the last
\* row; starting at the bottom edge.
ResolveWidths == {0, 100, 200}
ResolveHeights == {0, 100, 300}
ResolveTops == {-300, -100, 699, 700}
ResolveInnerHeight == 700

ResolveBoxes == {Box(w, h, top, top + h, w, h) :
                   w \in ResolveWidths, h \in ResolveHeights, top \in ResolveTops}

\* getVisiblePages() called once on a document with three .page nodes
ResolveCall ==
    /\ probe = << >>
    /\ \E b1 \in ResolveBoxes, b2 \in ResolveBoxes, b3 \in ResolveBoxes :
         \E lay \in {[innerHeight |-> ResolveInnerHeight, rebuilt |-> {},
                       box |-> << b1, b2, b3 >>]} :
           probe' = [lay |-> lay, vis |-> getVisiblePages(TRUE, lay)]
    /\ UNCHANGED << lastBurst, flipPresent, reducedMotion, layout,
                    layoutChanges, regVars, liceVars, loopVars, startVars >>

SpecResolve == InitRoute /\ [][ResolveCall]_vars

\* --------------------------------------------------- maybeDespawn alone
\* Client widths and heights of a layer, in pixels.
DespawnWidths == {0, 12, 400}
DespawnHeights == {0, 20, 600}

\* Coordinates around the two edges lo and hi of the extended box, in the
\* model's position unit (1 / Scale px), and one in between.
Around(lo, hi) == {lo - 1, lo, lo + 1, 0, hi - 1, hi, hi + 1}

\* maybeDespawn(L) called once on an alive louse at (x, y)
DespawnCall ==
    /\ probe = << >>
    /\ \E W \in DespawnWidths, H \in DespawnHeights :
         \E x \in Around(-(size * Scale), W * Scale),
            y \in Around(-(size * Scale), H * Scale) :
           probe' = [W |-> W * Scale, H |-> H * Scale, x |-> x, y |-> y,
                     out |-> maybeDespawn(
                                [makeLouse(1, Draws[1]) EXCEPT !.x = x, !.y = y],
                                W * Scale, H * Scale)]
    /\ UNCHANGED << lastBurst, flipPresent, reducedMotion, layout,
                    layoutChanges, regVars, liceVars, loopVars, startVars >>

SpecDespawn == InitRoute /\ [][DespawnCall]_vars

\* ---------------------------------------------------------------- claims
Registered == DOMAIN surfaces
AliveIn(p) == {i \in surfaces[p].lice : louse[i].alive}
Visible == Range(visiblePages[flipPresent, layout])
SizeOf(surf, p) == IF p \in DOMAIN surf THEN Cardinality(surf[p].lice) ELSE 0

\* the program state that spawnOneOn and spawnBurst work on
State == [surfaces |-> surfaces, layersMade |-> layersMade,
          pageLayers |-> pageLayers, layerSprites |-> layerSprites,
          louse |-> louse, created |-> created]

\* a step that is one call of spawnBurst
BurstStep == BurstTimeout \/ BurstInterval \/ Burst

\* C1: in every reachable state each registered surface holds at most
\* activeMaxPerSurface alive lice.
CapInvariant ==
    \A p \in Registered : Cardinality(AliveIn(p)) <= activeMaxPerSurface

\* a surface is full of alive lice, frames have run, and a burst found every
\* visible surface at its cap
CapReached ==
    /\ \E p \in Registered : Cardinality(AliveIn(p)) = activeMaxPerSurface
    /\ ticks > 0
    /\ lastBurst.full /\ lastBurst.vis # {}

\* C2: one call of spawnBurst adds at most burstSize lice, adds them only to
\* the surfaces the resolver returned in that call, at most two to each (two
\* passes, one attempt per surface per pass), and adds none when every
\* visible surface is at its cap.
BurstBounded ==
    [][\/ /\ created' - created \in 0..burstSize
          /\ \A p \in DOMAIN surfaces' :
               /\ p \notin Visible => /\ p \in Registered
                                      /\ surfaces'[p].lice = surfaces[p].lice
               /\ SizeOf(surfaces', p) - SizeOf(surfaces, p) \in 0..2
               /\ p \in Registered => surfaces[p].lice \subseteq surfaces'[p].lice
          /\ InSets(surfaces') \ InSets(surfaces) = (created + 1)..created'
          /\ (\A p \in Visible : SizeOf(surfaces, p) >= activeMaxPerSurface)
               => created' = created /\ louse' = louse
       \/ ~BurstStep
      ]_vars

\* a burst with one visible surface placed burstSize lice on it in two passes
BurstTwoPasses ==
    /\ lastBurst.added = burstSize
    /\ Cardinality(lastBurst.vis) = 1

\* C3: spawnOneOn on an element that is not registered, or whose set has
\* reached the cap, returns null and leaves the registry, the layers' sprites
\* and every set as they were.
SpawnAtCapIsNoop ==
    \A el \in Pages :
        (el \notin Registered \/ SizeOf(surfaces, el) >= activeMaxPerSurface)
        => \A k \in DOMAIN Draws :
             spawnOneOn(State, el, Draws[k], layout) = [st |-> State, L |-> 0]

\* a burst ran while every visible surface was at its cap, and a page is not
\* registered
SpawnedAtCap ==
    /\ lastBurst.full /\ lastBurst.vis # {} /\ lastBurst.added = 0
    /\ \E p \in Registered : SizeOf(surfaces, p) = activeMaxPerSurface
    /\ Pages \ Registered # {}

\* the position (x, y) is strictly outside the box 0..W by 0..H extended by
\* the sprite size to the left and to the top
StrictlyOutside(x, y, W, H) ==
    x < -(size * Scale) \/ x > W \/ y < -(size * Scale) \/ y > H

\* C4: a louse is marked not alive only by a frame that leaves it strictly
\* outside its layer's box extended by the sprite size; it is marked once and
\* one fade timeout is scheduled for it; when the timeout fires the louse
\* leaves its own surface's set, which shrinks by one, and no other set
\* changes.
DespawnClosure ==
    /\ [](\A i \in Ids :
            /\ scheduled[i] <= 1
            /\ i \in DOMAIN louse =>
                 /\ scheduled[i] = (IF louse[i].alive THEN 0 ELSE 1)
                 /\ fadeTimers[i] = scheduled[i]
                 /\ i \in surfaces[louse[i].surf].lice
            /\ i \in removed => scheduled[i] = 1 /\ fadeTimers[i] = 0)
    /\ [][\A i \in DOMAIN louse :
            /\ (louse[i].alive /\ i \in DOMAIN louse' /\ ~louse'[i].alive)
               => /\ ticks' = ticks + 1
                  /\ StrictlyOutside(louse'[i].x, louse'[i].y,
                                     boxOf(louse[i]).W, boxOf(louse[i]).H)
            /\ fadeTimers'[i] < fadeTimers[i]
               => /\ i \in surfaces[louse[i].surf].lice
                  /\ surfaces' = [surfaces EXCEPT
                                    ![louse[i].surf].lice = @ \ {i}]
                  /\ SizeOf(surfaces', louse[i].surf)
                       = SizeOf(surfaces, louse[i].surf) - 1
          ]_vars

\* a louse left its surface, was marked and was removed by its timeout, while
\* another louse is still in a set
DespawnedAndRemoved ==
    /\ removed # {}
    /\ DOMAIN louse # {}

\* C5: a louse that is not alive never becomes alive again, a frame changes
\* neither its position nor its velocity nor its wander heading, and a louse
\* that was removed is in no set again.
LifecycleOneWay ==
    /\ [](\A i \in removed : i \notin InSets(surfaces) /\ i \notin DOMAIN louse)
    /\ [][/\ removed \subseteq removed'
          /\ \A i \in DOMAIN louse :
               (~louse[i].alive /\ i \in DOMAIN louse')
               => /\ ~louse'[i].alive
                  /\ louse'[i].x = louse[i].x /\ louse'[i].y = louse[i].y
                  /\ louse'[i].vx = louse[i].vx /\ louse'[i].vy = louse[i].vy
                  /\ louse'[i].wanderAngle = louse[i].wanderAngle
                  /\ louse'[i].surf = louse[i].surf
          /\ \A i \in InSets(surfaces) \ InSets(surfaces') :
               i \in removed' /\ ~louse[i].alive
         ]_vars

\* a frame ran while a louse was fading: marked by an earlier frame and
\* still in its set
FadingThroughFrame ==
    \E i \in DOMAIN louse :
        /\ ~louse[i].alive
        /\ i \in InSets(surfaces)
        /\ markedAt[i] > 0 /\ markedAt[i] < ticks

\* Rounding moves a speed by at most a fifth of a pixel per second.
SpeedTol == Scale \div 5

\* the square of the speed of L
Speed2(L) == L.vx * L.vx + L.vy * L.vy

\* the inputs of a frame: dt in ms, within [0, 50], and Math.random()
FrameDraws == {[dt |-> Min(dtMaxMs, Frames[k].elapsed), r |-> Frames[k].r] :
                 k \in DOMAIN Frames}
              \cup {[dt |-> 0, r |-> 0], [dt |-> 0, r |-> 999]}

\* C6: the speed of every alive louse, after its spawn and after every frame,
\* lies in [speedMin, speedMax] up to rounding; and whatever the next frame
\* draws, the velocity it integrates (before the clamp) is not the zero
\* vector, so that the clamp never meets the hypot(...) || 1 case.
SpeedBound ==
    \A i \in DOMAIN louse :
        louse[i].alive =>
            /\ Speed2(louse[i]) >= (speedMin * Scale - SpeedTol)
                                    * (speedMin * Scale - SpeedTol)
            /\ Speed2(louse[i]) <= (speedMax * Scale + SpeedTol)
                                    * (speedMax * Scale + SpeedTol)
            /\ \A f \in FrameDraws :
                   \A v \in {integrated(louse[i], f.dt, f.r)} :
                      v.vx # 0 \/ v.vy # 0

\* an alive louse that a frame moved and whose speed the clamp raised to
\* speedMin
ClampedToMin ==
    \E i \in DOMAIN louse :
        /\ louse[i].alive
        /\ ticks >= 2
        /\ i \in InSets(surfaces)
        /\ Abs(hypot(louse[i].vx, louse[i].vy) - speedMin * Scale) <= SpeedTol

\* the length of the edge the louse of the probe enters by, and its entry
\* and exit offsets along it
EdgeLength == IF probe.d.side \in {0, 1} THEN probe.W ELSE probe.H
EntryOffset == IF probe.d.side \in {0, 1} THEN probe.L.x ELSE probe.L.y
ExitOffset == IF probe.d.side \in {0, 1} THEN probe.L.exit.x ELSE probe.L.exit.y

\* the louse is on the chosen edge and its exit is beyond the opposite edge
OnEdgeAndOpposite ==
    /\ probe.d.side = 0 =>
          probe.L.y = probe.H - size * Scale
          /\ probe.L.exit.y = -(size * Scale) - 4 * Scale
    /\ probe.d.side = 1 =>
          probe.L.y = 0 /\ probe.L.exit.y = probe.H + 4 * Scale
    /\ probe.d.side = 2 =>
          probe.L.x = 0 /\ probe.L.exit.x = probe.W + 4 * Scale
    /\ probe.d.side = 3 =>
          probe.L.x = probe.W - size * Scale
          /\ probe.L.exit.x = -(size * Scale) - 4 * Scale

\* both offsets lie in [edgePad, dimension - size - edgePad]
OffsetsPadded ==
    /\ EntryOffset >= edgePad * Scale
    /\ EntryOffset <= EdgeLength - size * Scale - edgePad * Scale
    /\ ExitOffset >= edgePad * Scale
    /\ ExitOffset <= EdgeLength - size * Scale - edgePad * Scale

\* C7: for every W and H and each of the four sides, configureRoute places
\* the louse on the chosen edge and the exit beyond the opposite edge; the
\* entry and exit offsets lie in [edgePad, dimension - size - edgePad] when
\* the dimension is at least size + 2 * edgePad, and both equal edgePad when
\* it is smaller (the interval is then empty).
RouteWithinPadding ==
    probe # << >> =>
        /\ OnEdgeAndOpposite
        /\ IF EdgeLength >= (size + 2 * edgePad) * Scale
           THEN OffsetsPadded
           ELSE EntryOffset = edgePad * Scale /\ ExitOffset = edgePad * Scale

\* the scenario W = 800, H = 600, entry from the bottom, the entry offset
\* the largest that can be drawn
RouteOnWidePage ==
    /\ probe # << >>
    /\ probe.W = 800 * Scale /\ probe.H = 600 * Scale
    /\ probe.d.side = 0 /\ probe.d.re = 999 /\ probe.d.rx = 0
    /\ probe.L.y = 554 * Scale
    /\ probe.L.x > 740 * Scale
    /\ probe.L.exit.x = edgePad * Scale

\* C7 as stated: the offsets lie in [edgePad, dimension - size - edgePad]
\* for every W and H.
RouteOffsetsAlwaysPadded ==
    probe # << >> => OnEdgeAndOpposite /\ OffsetsPadded

\* a step that calls ensureLayersOnVisiblePages
EnsureStep == OnResize \/ OnTurned \/ BurstStep \/ \E c \in Calls : StartResume(c)

\* every registered surface has its own layer, and no other layer was made
OneLayerEach(reg) ==
    /\ reg.layersMade = Cardinality(DOMAIN reg.surfaces)
    /\ \A p, q \in DOMAIN reg.surfaces :
          p # q => reg.surfaces[p].layer # reg.surfaces[q].layer
    /\ \A p \in Pages : \A l \in reg.pageLayers[p] :
          p \in DOMAIN reg.surfaces /\ reg.surfaces[p].layer = l

\* a second call, after a first call left the registry and the DOM as once,
\* changes nothing
SecondCallNoop(once, vis) ==
    ensureLayersOnVisiblePages(once, vis) = once /\ OneLayerEach(once)

\* C8: ensureLayersOnVisiblePages called a second time with no layout change
\* in between leaves the registry and the DOM as the first call left them, in
\* every reachable state and after every step of the program that calls it:
\* no second layer for any surface, the same layer and the same set of lice
\* for every registered surface, no entry added or reassigned.
EnsureIdempotent ==
    /\ [](SecondCallNoop(ensureLayersOnVisiblePages(Reg,
                             visiblePages[flipPresent, layout]),
                         visiblePages[flipPresent, layout]))
    /\ [][\/ (ensureLayersOnVisiblePages(Reg,
                      visiblePages[flipPresent, layout]) = Reg)'
           \/ ~EnsureStep]_vars

\* the resolver was called after page 1 was rebuilt and put its layer back,
\* with two surfaces registered and lice in flight
EnsuredAfterRebuild ==
    /\ layout = 3
    /\ {1, 2} \subseteq Registered
    /\ surfaces[1].layer \in pageLayers[1]
    /\ surfaces[1].lice # {}
    /\ surfaces[2].lice # {}
    /\ listeners > 0

\* the frame inputs of the step, when it is a frame of the running loop
FrameOf(last, n, k) == CHOOSE f \in FrameInputs(last, n, k) : f.elapsed > 0 \/ last = 0

\* C9: no step removes a surface from the registry or gives it another layer,
\* and no step of the program (one that leaves the layout alone) detaches a
\* layer from its page; a louse keeps its owning surface, leaves its set only
\* when its own fade-removal fires after its despawn, and as long as it is
\* alive every frame advances it, visible surface or not.
SurfacesPersist ==
    [][/\ \A p \in Registered :
            /\ p \in DOMAIN surfaces'
            /\ surfaces'[p].layer = surfaces[p].layer
            /\ (layout' = layout /\ surfaces[p].layer \in pageLayers[p])
                  => surfaces[p].layer \in pageLayers'[p]
            /\ \A i \in surfaces[p].lice :
                  /\ i \in DOMAIN louse' => louse'[i].surf = p
                  /\ i \notin surfaces'[p].lice =>
                        /\ ~louse[i].alive
                        /\ fadeTimers'[i] = fadeTimers[i] - 1
                        /\ i \in removed'
       /\ (ticks' = ticks + 1 /\ loops = 1) =>
            \A i \in InSets(surfaces) :
               louse[i].alive =>
                 \E M \in {advance(louse[i],
                                    Min(dtMaxMs, FrameOf(lastT, loops, ticks).elapsed),
                                    FrameOf(lastT, loops, ticks).r)} :
                    /\ louse'[i].x = M.x /\ louse'[i].y = M.y
                    /\ louse'[i].vx = M.vx /\ louse'[i].vy = M.vy
                    /\ louse'[i].wanderAngle = M.wanderAngle]_vars

\* a louse in flight on a surface that dropped out of the visible set was
\* advanced by a frame with dt > 0 and is still alive
AdvancedOffscreen ==
    /\ layout = 2 /\ tickLayout = 2 /\ ticks >= 2
    /\ \E i \in InSets(surfaces) :
          /\ louse[i].alive
          /\ louse[i].surf \notin Visible
          /\ i \in surfaces[louse[i].surf].lice

\* C10: with no .flipbook in the document, start() returns at line 281: no
\* call of start() gets past it, the registry stays empty, no layer is made,
\* no listener is bound, neither the timeout nor the interval of spawnBurst
\* is set, and no frame of the loop is requested.
AbsentStaysInactive ==
    ~flipPresent =>
        /\ \A c \in Calls : startPc[c] \in {"idle", "absent"}
        /\ \A c \in Calls : \A i \in Images : imgState[c][i] = "none"
        /\ surfaces = << >> /\ layersMade = 0
        /\ listeners = 0
        /\ burstTimeouts = 0 /\ burstIntervals = 0
        /\ loops = 0 /\ ~running /\ ticks = 0
        /\ created = 0

\* start() returned for want of the widget, and burst() was called after it
StartedWithoutWidget ==
    /\ ~flipPresent
    /\ startPc[1] = "absent"
    /\ lastBurst.calls >= 1

\* C11: a call of spawnBurst for which the resolver returns no visible
\* surface creates no louse and leaves the registry, the DOM and every set
\* as they were, whatever room the registered surfaces have.
BurstSkippedWhenNoneVisible ==
    [][\/ Visible # {}
       \/ /\ created' = created /\ louse' = louse
          /\ surfaces' = surfaces /\ layersMade' = layersMade
          /\ pageLayers' = pageLayers /\ layerSprites' = layerSprites
       \/ ~BurstStep]_vars

\* spawnBurst ran while the widget was scrolled out of the viewport, with a
\* registered surface below its cap
BurstWithNoneVisible ==
    /\ flipPresent /\ layout = 2
    /\ lastBurst.calls >= 1 /\ lastBurst.vis = {}
    /\ \E p \in Registered : SizeOf(surfaces, p) < activeMaxPerSurface

\* every image of the call c has fired onload or onerror
AllFired(c) == \A i \in Images : imgState[c][i] \notin {"none", "pending"}

\* C12: a step schedules the initial timeout or the interval of spawnBurst
\* only if it resumes a call of start() all of whose images have fired
\* onload or onerror, and it then schedules both; and once every image of a
\* call has fired, loaded or failed, that call eventually gets there.
TimersAfterImages ==
    /\ [][(burstTimeouts' > burstTimeouts \/ burstIntervals' > burstIntervals)
            => \E c \in Calls :
                  /\ startPc[c] = "await" /\ AllFired(c)
                  /\ startPc'[c] = "done"
                  /\ burstTimeouts' = burstTimeouts + 1
                  /\ burstIntervals' = burstIntervals + 1]_vars
    /\ \A c \in Calls :
          (startPc[c] = "await" /\ AllFired(c))
             ~> (startPc[c] = "done" /\ burstIntervals >= 1)

\* start() got past its await and both timers are set, the timeout not yet
\* fired
TimersScheduled ==
    /\ startPc[1] = "done" /\ AllFired(1)
    /\ burstTimeouts = 1 /\ burstIntervals = 1

\* C13: with the reduced-motion preference set, no frame of the loop is ever
\* requested or run, while start() still sets both burst timers; every
\* louse the bursts spawn stays alive and in its set, with no fade timeout,
\* and no step changes it.
ReducedMotionFreezes ==
    /\ [](reducedMotion =>
            /\ loops = 0 /\ ~running /\ ticks = 0 /\ lastT = 0
            /\ (\A c \in Calls : startPc[c] = "done" => burstIntervals >= 1)
            /\ removed = {}
            /\ DOMAIN louse = 1..created
            /\ \A i \in DOMAIN louse :
                  /\ louse[i].alive
                  /\ i \in surfaces[louse[i].surf].lice
                  /\ fadeTimers[i] = 0 /\ scheduled[i] = 0)
    /\ [][reducedMotion =>
            \A i \in DOMAIN louse : i \in DOMAIN louse' /\ louse'[i] = louse[i]]_vars

\* under reduced motion the initial timeout fired and a burst spawned lice,
\* and the layout changed since
SpawnedUnderReducedMotion ==
    /\ reducedMotion
    /\ startPc[1] = "done" /\ burstTimeouts = 0 /\ burstIntervals = 1
    /\ created >= burstSize
    /\ layout = 3
\* C14: start() is idempotent: however often it is called with the widget
\* present, there is at most one recurring burst interval, one initial-burst
\* timeout scheduled, one set of listeners and one frame loop.
StartIdempotent ==
    /\ burstIntervals <= 1
    /\ burstTimeouts <= 1
    /\ listeners <= 1
    /\ loops <= 1

\* C15: frame cycling touches alive lice only: the frame index of a louse that
\* is not alive is left unchanged by every step, a frame index that changes
\* goes to (frame + 1) mod 2, and every frame index is 0 or 1.
FrameCyclesAliveOnly ==
    /\ [](\A i \in DOMAIN louse : louse[i].frame \in {0, 1})
    /\ [][\A i \in DOMAIN louse \cap DOMAIN louse' :
            /\ ~louse[i].alive => louse'[i].frame = louse[i].frame
            /\ louse'[i].frame \in {louse[i].frame, (louse[i].frame + 1) % 2}]_vars

\* the test of line 44 on page el of layout lay
PassesFilter(el, lay) ==
    /\ lay.box[el].w > 0 /\ lay.box[el].h > 0
    /\ lay.box[el].bottom > 0 /\ lay.box[el].top < lay.innerHeight

\* C16: getVisiblePages returns at most 2 elements, each of non-zero width and
\* height and crossing the viewport vertically, and no page that passes the
\* filter and is not returned has a larger area than a returned one.
ResolverTopTwo ==
    probe # << >> =>
        /\ Len(probe.vis) <= 2
        /\ \A el \in Range(probe.vis) : PassesFilter(el, probe.lay)
        /\ \A c \in Pages \ Range(probe.vis) :
              PassesFilter(c, probe.lay) =>
                 \A el \in Range(probe.vis) :
                    Area(c, probe.lay) <= Area(el, probe.lay)

\* three pages pass the filter, the largest is the last in document order and
\* the smallest, the first, is the one left out
ResolvedThreeCandidates ==
    /\ probe # << >>
    /\ \A c \in Pages : PassesFilter(c, probe.lay)
    /\ Area(1, probe.lay) < Area(2, probe.lay)
    /\ Area(2, probe.lay) < Area(3, probe.lay)
    /\ probe.vis = << 3, 2 >>

\* C17: in every reachable state the position of every alive louse satisfies
\* -size <= x <= W and -size <= y <= H for the current client width W and
\* height H of the layer of its surface.
PositionBound ==
    \A i \in DOMAIN louse :
        louse[i].alive =>
            /\ -(size * Scale) <= louse[i].x /\ louse[i].x <= boxOf(louse[i]).W
            /\ -(size * Scale) <= louse[i].y /\ louse[i].y <= boxOf(louse[i]).H

\* v lies in lo..hi
Within(v, lo, hi) == lo <= v /\ v <= hi

\* C18: maybeDespawn marks the louse exactly when x < -size or x > W or
\* y < -size or y > H: on the edges x = -size, x = W, y = -size, y = H with the
\* other coordinate inside it does not, and one unit beyond any edge it does.
DespawnBoundaryExact ==
    probe # << >> =>
        /\ probe.out.fade = ~probe.out.L.alive
        /\ probe.out.fade <=>
              (\/ probe.x < -(size * Scale) \/ probe.x > probe.W
               \/ probe.y < -(size * Scale) \/ probe.y > probe.H)
        /\ (/\ probe.x \in {-(size * Scale), probe.W}
            /\ Within(probe.y, -(size * Scale), probe.H)) => ~probe.out.fade
        /\ (/\ probe.y \in {-(size * Scale), probe.H}
            /\ Within(probe.x, -(size * Scale), probe.W)) => ~probe.out.fade
        /\ probe.x \in {-(size * Scale) - 1, probe.W + 1} => probe.out.fade
        /\ probe.y \in {-(size * Scale) - 1, probe.H + 1} => probe.out.fade

\* a louse on the right edge x = W of a full page, y strictly inside, is kept
\* alive
KeptOnRightEdge ==
    /\ probe # << >>
    /\ probe.W = 400 * Scale /\ probe.x = probe.W
    /\ probe.y = 0
    /\ probe.out.L.alive /\ ~probe.out.fade

\* the members of the set of surface p that are fading: not alive, their
\* removal timeout still pending
FadingIn(p) == {i \in surfaces[p].lice : ~louse[i].alive /\ fadeTimers[i] > 0}

\* C19: the set of every surface, fading lice included, never holds more than
\* activeMaxPerSurface lice, and a burst leaves the set of a visible surface
\* that is at its cap as it was, fading members or not; a set that held a
\* fading louse shrinks only when that louse's timeout fires.
CapCountsFading ==
    /\ [](\A p \in Registered : SizeOf(surfaces, p) <= activeMaxPerSurface)
    /\ [][\A p \in Registered :
            \/ SizeOf(surfaces, p) < activeMaxPerSurface
            \/ /\ surfaces'[p].lice \subseteq surfaces[p].lice
               /\ \/ surfaces'[p].lice = surfaces[p].lice
                  \/ \E i \in FadingIn(p) :
                        /\ fadeTimers'[i] < fadeTimers[i]
                        /\ surfaces'[p].lice = surfaces[p].lice \ {i}]_vars

\* the last burst met a visible surface at its cap with a fading member and
\* added nothing, and the louse is still fading in a full set
BurstRefusedByFading ==
    /\ lastBurst.fading /\ lastBurst.full /\ lastBurst.added = 0
    /\ \E p \in lastBurst.vis \cap Registered :
          /\ SizeOf(surfaces, p) = activeMaxPerSurface
          /\ FadingIn(p) # {}
          /\ Cardinality(AliveIn(p)) < activeMaxPerSurface

RECURSIVE FreeOn(_)
\* the free capacity of the surfaces S: activeMaxPerSurface minus the size of
\* the set, summed (a page without a registered surface has an empty set)
FreeOn(S) ==
    IF S = {} THEN 0
    ELSE LET p == CHOOSE q \in S : TRUE
         IN  activeMaxPerSurface - SizeOf(surfaces, p) + FreeOn(S \ {p})

\* C20: with burstSize <= 2, one call of spawnBurst adds exactly
\* min(burstSize, F) lice, F being the free capacity of the visible surfaces
\* at the call; a burst that places fewer than burstSize lice leaves every
\* visible surface at its cap.
BurstFillsCapacity ==
    [][\/ /\ burstSize <= 2
          /\ created' - created = Min(burstSize, FreeOn(Visible))
          /\ created' - created < burstSize
                => \A p \in Visible :
                      SizeOf(surfaces', p) = activeMaxPerSurface
       \/ ~(BurstStep \/ StillBurst)]_vars

\* the last burst met two visible surfaces with a single free slot between
\* them, and filled it
BurstFilledLastSlot ==
    /\ lastBurst.added = 1 /\ ~lastBurst.full
    /\ Cardinality(lastBurst.vis) = 2
    /\ \A p \in lastBurst.vis :
          p \in Registered /\ SizeOf(surfaces, p) = activeMaxPerSurface
====
